---- MODULE Spec2Model ----
(***************************************************************************)
(* Model of the data resolution pipeline of MTG-Proxyshop: the decorated   *)
(* request functions, the card resolver get_card_data, the set resolver    *)
(* get_set_data and the layout classifier process_scryfall_data            *)
(* (src/src/utils/scryfall.py), and the render job with its filename       *)
(* parser (src/proxyshop/render.py, src/plugins/loader.py).                *)
(*                                                                         *)
(* The specifications of this module:                                      *)
(*   SpecReq      one caller of every wrapped request function, through    *)
(*                sleep_and_retry, the rate limiter, on_exception and      *)
(*                handle_final_exception, over a discrete clock;           *)
(*   SpecLimit    the same stack under concurrent render jobs;             *)
(*   Spec         get_card_data, one remote lookup per step;               *)
(*   SpecProc     process_scryfall_data applied to bounded raw records;    *)
(*   SpecSet      get_set_data called again and again by one job;          *)
(*   SpecSetJobs  get_set_data called once by each of several jobs;        *)
(*   SpecPaged    get_cards_paged and get_cards_oracle on a paged list;    *)
(*   SpecRender   parse_card_info and render on one input file.            *)
(*                                                                         *)
(* The limiter and the retry decorator come from the ratelimit and backoff *)
(* packages; they are modelled by what RateLimitDecorator(calls, period),  *)
(* sleep_and_retry and on_exception(expo, ..., max_tries, max_time) do: a  *)
(* fixed window that restarts with the first call after the period has     *)
(* elapsed, a sleep for the rest of the period, and a retry of the target  *)
(* while it raises the given exception.                                    *)
(***************************************************************************)
EXTENDS Integers, Sequences, FiniteSets, TLC

VARIABLES
    \* ---- request client (SpecReq) ----
    now,          \* the monotonic clock read by the limiter, in ticks
    last_reset,   \* RateLimitDecorator.last_reset
    num_calls,    \* RateLimitDecorator.num_calls
    starts,       \* history: wrapped bodies started at each of the last ticks
                  \* that make up one period, the current tick last
    admitted,     \* history: wrapped bodies started since last_reset
    pc,           \* job -> position inside handle_request_failure's wrapper
    fn,           \* job -> the wrapped request function being called
    tries,        \* job -> attempts of the body made by on_exception
    wake,         \* job -> tick at which sleep_and_retry's sleep ends
    started,      \* job -> tick at which the limiter let the call through
    slept,        \* job -> the limiter delayed this call at least once
    raised,       \* job -> sequence of what each attempt of the body raised
    result,       \* job -> outcome delivered to the caller
    \* ---- process_scryfall_data (SpecProc) ----
    raw,          \* the record as the API delivered it, name_normalized set
    prev,         \* the record the last pass of process_scryfall_data was given
    rec,          \* outcome of the last pass: exception raised, record
    mid,          \* outcome of the meld block of the last pass
    fetched,      \* uris the last pass requested, in order
    passes,       \* number of passes of process_scryfall_data made
    \* ---- get_card_data (Spec) ----
    cfg,          \* settings: lang, scry_extras
    args,         \* card_name, card_set, card_number
    gpc,          \* position inside get_card_data
    results,      \* what each lookup made so far returned, in order
    http,         \* the HTTP requests made so far, in order
    ret,          \* outcome of get_card_data
    \* ---- get_set_data (SpecSet, SpecSetJobs) ----
    cache,        \* the data file SET-<CODE>.json of the set being resolved
    fail_scry,    \* the dict object handle_request_failure({}) was given for
                  \* get_set_scryfall, as it is now
    remote,       \* what the two providers answer for the set
    base,         \* history: fail_scry when the first call was made
    card_set,     \* job -> argument (and local variable) card_set
    spc,          \* job -> position inside get_set_data
    data_scry,    \* job -> local variable data_scry
    data_mtg,     \* job -> local variable data_mtg
    set_ret,      \* job -> what get_set_data returned
    seen,         \* job -> history: the cache file as the call found it
    net,          \* job -> history: requests the call made, in order
    wrote,        \* job -> history: records the call dumped, in order
    resolves,     \* job -> calls of get_set_data made so far
    prior,        \* job -> history: what the job's previous call of
                  \* get_set_data dumped, and to which data file
    \* ---- render, parse_card_info (SpecRender) ----
    file,         \* the name of the input file, a string of characters
    details,      \* what parse_card_info returned for the file
    rpc,          \* position of the render job
    job,          \* what the render job did
    \* ---- get_cards_paged, get_cards_oracle (SpecPaged) ----
    pages,        \* the pages of the remote result list, in order
    ppc,          \* position of the paged call
    paged,        \* outcome of the paged call
    page_http     \* the page requests made, in order

reqVars == <<now, last_reset, num_calls, starts, admitted, pc, fn, tries, wake, started, slept,
             raised, result>>

procVars == <<raw, prev, rec, mid, fetched, passes>>

cardVars == <<cfg, args, gpc, results, http, ret>>

setVars == <<cache, fail_scry, remote, base, card_set, spc, data_scry, data_mtg,
             set_ret, seen, net, wrote, resolves, prior>>

fileVars == <<file, details, rpc, job>>

pageVars == <<pages, ppc, paged, page_http>>

vars == <<reqVars, procVars, cardVars, setVars, fileVars, pageVars>>

(***************************************************************************)
(* Bounds                                                                  *)
(***************************************************************************)
NumCallers == 1       \* jobs of SpecReq
NumJobs == 2          \* concurrent render jobs of SpecLimit
TicksPerSecond == 2   \* clock resolution
MaxTime == 3          \* last tick of the clock
MaxParts == 3         \* longest all_parts list of a raw meld record
MaxEffects == 2       \* longest frame_effects list of a raw record
MaxPasses == 2        \* times process_scryfall_data is applied to a record
MaxCards == 2         \* most candidate cards a remote response holds
NumSetJobs == 2       \* concurrent render jobs resolving one set
MaxResolves == 3      \* calls of get_set_data one job makes in a row
MaxPages == 2         \* most pages a remote result list has

Callers == 1..NumCallers
Jobs == 1..NumJobs
AllJobs == Callers \cup Jobs
SetJobs == 1..NumSetJobs

(***************************************************************************)
(* ERROR HANDLING: the decorator stack                                     *)
(***************************************************************************)

\* RateLimitDecorator(calls=20, period=1)
calls == 20
period == 1
\* on_exception(expo, RequestException, max_tries=3, max_time=1)
max_tries == 3
max_time == 1

\* The wrapped request functions and the fail_response each is decorated with.
RequestFunctions ==
    {"get_card_unique", "get_card_search", "get_cards_paged",
     "get_cards_oracle", "get_set_mtgjson", "get_set_scryfall", "card_scan"}

fail_response(f) ==
    CASE f \in {"get_card_unique", "get_card_search"} -> "error"
      [] f \in {"get_cards_paged", "get_cards_oracle"} -> "[]"
      [] f \in {"get_set_mtgjson", "get_set_scryfall"} -> "{}"
      [] OTHER -> "None"

\* An outcome of running code: what it raised ("none" when it returned) and
\* the value it returned.
Returned(v) == [exc |-> "none", val |-> v]
Raise(e) == [exc |-> e, val |-> "-"]

\* What the undecorated body of a request function can do on one attempt:
\* return its data, fail in transport (requests RequestException), or raise
\* anything else (malformed response, bad argument).
BodyOutcomes == {Returned("data"), Raise("RequestException"), Raise("Exception")}

\* Variant: the handler catches only transport failures.
handle_final_exception_transport_only(fail, body) ==
    IF body.exc = "RequestException"
    THEN Returned(IF fail = "error" THEN "ScryfallError" ELSE fail)
    ELSE body

\* handle_final_exception(fail_response).wrapper around one run of the body.
handle_final_exception(fail, body) ==
    IF body.exc # "none"
    THEN Returned(IF fail = "error" THEN "ScryfallError" ELSE fail)
    ELSE body

\* on_exception(...).retry: after an attempt of its target, give up or retry.
\* start is the tick of the first attempt.
on_exception_giveup(attempt, n, start) ==
    \/ attempt.exc # "RequestException"
    \/ n >= max_tries
    \/ now - start >= max_time * TicksPerSecond

\* RateLimitDecorator.__period_remaining
period_remaining == period * TicksPerSecond - (now - last_reset)

\* Variant: the quota test is off by one.
scryfall_rate_limit_off_by_one ==
    LET remaining == period_remaining
        reset == remaining <= 0
        n == (IF reset THEN 0 ELSE num_calls) + 1
    IN  [num_calls |-> n,
         last_reset |-> IF reset THEN now ELSE last_reset,
         reset |-> reset,
         limited |-> n > calls + 1,
         period_remaining |-> remaining]

\* RateLimitDecorator.__call__.wrapper, the part under the lock: the limiter
\* state it leaves and whether it raises RateLimitException(period_remaining).
scryfall_rate_limit ==
    LET remaining == period_remaining
        reset == remaining <= 0
        n == (IF reset THEN 0 ELSE num_calls) + 1
    IN  [num_calls |-> n,
         last_reset |-> IF reset THEN now ELSE last_reset,
         reset |-> reset,
         limited |-> n > calls,
         period_remaining |-> remaining]

(***************************************************************************)
(* SpecReq, SpecLimit: jobs calling wrapped request functions              *)
(***************************************************************************)
NoOutcome == Returned("-")

\* No record is being processed.
ProcIdle ==
    /\ raw = [layout |-> "-"]
    /\ prev = [layout |-> "-"]
    /\ rec = [exc |-> "none", val |-> [layout |-> "-"]]
    /\ mid = [exc |-> "none", val |-> [layout |-> "-"]]
    /\ fetched = <<>>
    /\ passes = 0

Window == 1..(period * TicksPerSecond)

\* No request function is being called.
ReqIdle ==
    /\ now = 0
    /\ last_reset = 0
    /\ num_calls = 0
    /\ starts = [i \in Window |-> 0]
    /\ admitted = 0
    /\ pc = [j \in AllJobs |-> "idle"]
    /\ fn = [j \in AllJobs |-> "-"]
    /\ tries = [j \in AllJobs |-> 0]
    /\ wake = [j \in AllJobs |-> 0]
    /\ started = [j \in AllJobs |-> 0]
    /\ slept = [j \in AllJobs |-> FALSE]
    /\ raised = [j \in AllJobs |-> <<>>]
    /\ result = [j \in AllJobs |-> NoOutcome]

\* get_card_data is not running.
CardIdle ==
    /\ cfg = [lang |-> "en", scry_extras |-> FALSE]
    /\ args = [card_name |-> "-", card_set |-> "", card_number |-> ""]
    /\ gpc = "idle"
    /\ results = <<>>
    /\ http = <<>>
    /\ ret = [exc |-> "none", val |-> [layout |-> "-"]]

\* No data file, or none that can be read.
NoFile == [state |-> "absent", data |-> {}]

\* The previous call of get_set_data dumped nothing, or there was none.
NoDump == [dumped |-> FALSE, path |-> "-", data |-> <<>>]

\* get_set_data is not running.
SetIdle ==
    /\ cache = [p \in {"SET-MH2.json", "SET-TMH2.json"} |-> NoFile]
    /\ fail_scry = <<>>
    /\ remote = [scry |-> [kind |-> "-", json |-> <<>>],
                 mtg |-> [kind |-> "-", json |-> <<>>]]
    /\ base = <<>>
    /\ card_set = [j \in SetJobs |-> "-"]
    /\ spc = [j \in SetJobs |-> "idle"]
    /\ data_scry = [j \in SetJobs |-> [alias |-> FALSE, val |-> <<>>]]
    /\ data_mtg = [j \in SetJobs |-> <<>>]
    /\ set_ret = [j \in SetJobs |-> <<>>]
    /\ seen = [j \in SetJobs |-> [path |-> "-", file |-> NoFile]]
    /\ net = [j \in SetJobs |-> <<>>]
    /\ wrote = [j \in SetJobs |-> <<>>]
    /\ resolves = [j \in SetJobs |-> 0]
    /\ prior = [j \in SetJobs |-> NoDump]

\* No render job is running.
NoJob ==
    [exc |-> "none", card |-> <<>>, layout |-> <<>>, lookups |-> <<>>,
     prompt |-> "", template |-> "-", executed |-> FALSE, exited |-> FALSE]

FileIdle ==
    /\ file = [text |-> <<>>, name |-> <<>>, tags |-> <<>>, set |-> <<>>]
    /\ details = <<>>
    /\ rpc = "idle"
    /\ job = NoJob

\* No paged call is running.
PageIdle ==
    /\ pages = <<>>
    /\ ppc = [at |-> "idle", f |-> "-", all_pages |-> FALSE]
    /\ paged = [exc |-> "none", val |-> <<>>]
    /\ page_http = <<>>

InitReq == ReqIdle /\ ProcIdle /\ CardIdle /\ SetIdle /\ FileIdle /\ PageIdle

\* A job calls a wrapped request function: control enters sleep_and_retry.
Call(j, f) ==
    /\ pc[j] = "idle"
    /\ pc' = [pc EXCEPT ![j] = "limit"]
    /\ fn' = [fn EXCEPT ![j] = f]
    /\ UNCHANGED <<now, last_reset, num_calls, starts, admitted, tries, wake,
                   started, slept, raised, result>>
    /\ UNCHANGED <<procVars, cardVars, setVars, fileVars, pageVars>>

\* sleep_and_retry calls the limiter: it lets the call through to
\* on_exception, or raises RateLimitException and the job sleeps for the
\* period remaining.
RateLimit(j) ==
    /\ pc[j] = "limit"
    /\ LET lim == scryfall_rate_limit IN
        /\ num_calls' = lim.num_calls
        /\ last_reset' = lim.last_reset
        /\ IF lim.limited
           THEN /\ pc' = [pc EXCEPT ![j] = "sleep"]
                /\ wake' = [wake EXCEPT ![j] = now + lim.period_remaining]
                /\ slept' = [slept EXCEPT ![j] = TRUE]
                /\ admitted' = IF lim.reset THEN 0 ELSE admitted
                /\ UNCHANGED <<starts, started>>
           ELSE /\ pc' = [pc EXCEPT ![j] = "body"]
                /\ starts' = [starts EXCEPT ![Len(starts)] = @ + 1]
                /\ admitted' = (IF lim.reset THEN 0 ELSE admitted) + 1
                /\ started' = [started EXCEPT ![j] = now]
                /\ UNCHANGED <<wake, slept>>
    /\ UNCHANGED <<now, fn, tries, raised, result>>
    /\ UNCHANGED <<procVars, cardVars, setVars, fileVars, pageVars>>

\* time.sleep(exception.period_remaining) returns and the loop of
\* sleep_and_retry calls the limiter again.
Wake(j) ==
    /\ pc[j] = "sleep"
    /\ now >= wake[j]
    /\ pc' = [pc EXCEPT ![j] = "limit"]
    /\ wake' = [wake EXCEPT ![j] = 0]
    /\ UNCHANGED <<now, last_reset, num_calls, starts, admitted, fn, tries,
                   started, slept, raised, result>>
    /\ UNCHANGED <<procVars, cardVars, setVars, fileVars, pageVars>>

\* One attempt made by on_exception: the body runs under
\* handle_final_exception; on_exception then retries, re-raises or returns.
Attempt(j, body) ==
    /\ pc[j] = "body"
    /\ LET attempt == handle_final_exception(fail_response(fn[j]), body)
           n == tries[j] + 1
       IN  /\ tries' = [tries EXCEPT ![j] = n]
           /\ raised' = [raised EXCEPT ![j] = Append(@, body.exc)]
           /\ IF attempt.exc = "none" \/ on_exception_giveup(attempt, n, started[j])
              THEN /\ pc' = [pc EXCEPT ![j] = "done"]
                   /\ result' = [result EXCEPT ![j] = attempt]
                   /\ started' = [started EXCEPT ![j] = 0]
              ELSE UNCHANGED <<pc, result, started>>
    /\ UNCHANGED <<now, last_reset, num_calls, starts, admitted, fn, wake, slept>>
    /\ UNCHANGED <<procVars, cardVars, setVars, fileVars, pageVars>>

\* The caller takes the outcome; the job is free for its next call.
Return(j) ==
    /\ pc[j] = "done"
    /\ pc' = [pc EXCEPT ![j] = "idle"]
    /\ fn' = [fn EXCEPT ![j] = "-"]
    /\ tries' = [tries EXCEPT ![j] = 0]
    /\ slept' = [slept EXCEPT ![j] = FALSE]
    /\ raised' = [raised EXCEPT ![j] = <<>>]
    /\ result' = [result EXCEPT ![j] = NoOutcome]
    /\ UNCHANGED <<now, last_reset, num_calls, starts, admitted, wake, started>>
    /\ UNCHANGED <<procVars, cardVars, setVars, fileVars, pageVars>>

\* The clock advances by one tick.
Tick ==
    /\ now < MaxTime
    /\ now' = now + 1
    /\ starts' = Append(Tail(starts), 0)
    /\ UNCHANGED <<last_reset, num_calls, admitted, pc, fn, tries, wake,
                   started, slept, raised, result>>
    /\ UNCHANGED <<procVars, cardVars, setVars, fileVars, pageVars>>

\* SpecReq: callers of every wrapped request function.
NextReq ==
    \/ \E j \in Callers, f \in RequestFunctions : Call(j, f)
    \/ \E j \in Callers : RateLimit(j)
    \/ \E j \in Callers : Wake(j)
    \/ \E j \in Callers, body \in BodyOutcomes : Attempt(j, body)
    \/ \E j \in Callers : Return(j)
    \/ Tick

SpecReq == InitReq /\ [][NextReq]_vars

\* SpecLimit: concurrent render jobs resolving cards.
LimitFunctions == {"get_card_search"}

NextLimit ==
    \/ \E j \in Jobs, f \in LimitFunctions : Call(j, f)
    \/ \E j \in Jobs : RateLimit(j)
    \/ \E j \in Jobs : Wake(j)
    \/ \E j \in Jobs, body \in BodyOutcomes : Attempt(j, body)
    \/ \E j \in Jobs : Return(j)
    \/ Tick

SpecLimit == InitReq /\ [][NextLimit]_vars

(***************************************************************************)
(* CARD DATA UTILITIES: dicts, names and the remote card database          *)
(***************************************************************************)

\* A JSON object / Python dict is a function from its keys to their values.
Has(d, k) == k \in DOMAIN d
Get(d, k, default) == IF k \in DOMAIN d THEN d[k] ELSE default
Put(d, k, v) == [x \in DOMAIN d \cup {k} |-> IF x = k THEN v ELSE d[x]]

\* x in q, for a list q (and 'Word' in type_line, a type line being the list
\* of its words).
Contains(q, x) == \E i \in 1..Len(q) : q[i] = x

\* Outcome of a step of processing: what it raised and the record as the
\* step left it (the dict is mutated in place).
Done(d) == [exc |-> "none", val |-> d]
Fault(e, d) == [exc |-> e, val |-> d]

\* Card names that files and the remote database use.
CardNames ==
    {"Urza, Lord Protector", "The Mightstone and Weakstone",
     "Urza, Planeswalker", "URZA, PLANESWALKER", "Damnation"}

\* normalize_str(name, True): case folding of the names in use.
normalize_str(name) ==
    CASE name = "Urza, Lord Protector" -> "urza, lord protector"
      [] name = "The Mightstone and Weakstone" -> "the mightstone and weakstone"
      [] name = "Urza, Planeswalker" -> "urza, planeswalker"
      [] name = "URZA, PLANESWALKER" -> "urza, planeswalker"
      [] name = "Damnation" -> "damnation"
      [] OTHER -> name

\* TransformIcons: the frame effects that denote a transform icon.
TransformIcons == {"sunmoondfc", "compasslanddfc", "meld"}
TransformIcons_MELD == "meld"

\* Type lines, as lists of words.
Creature == <<"Legendary", "Creature">>
Planeswalker == <<"Legendary", "Planeswalker">>
Saga == <<"Enchantment", "Saga">>
Battle == <<"Battle", "Siege">>
TypeLines == {Creature, Planeswalker, Saga, Battle}

\* The related-card references a meld record lists in all_parts.
Part(component, name, uri) ==
    [object |-> "related_card", component |-> component, name |-> name, uri |-> uri]
PartA == Part("meld_part", "Urza, Lord Protector", "uri/a")
PartB == Part("meld_part", "The Mightstone and Weakstone", "uri/b")
PartC == Part("meld_result", "Urza, Planeswalker", "uri/c")
PartT == Part("token", "Powerstone", "uri/t")
Parts == {PartA, PartB, PartC, PartT}

\* What the remote database holds under the uri of a related card.
Remote(uri) ==
    CASE uri = "uri/a" ->
            [object |-> "card", name |-> "Urza, Lord Protector",
             layout |-> "meld", type_line |-> Creature]
      [] uri = "uri/b" ->
            [object |-> "card", name |-> "The Mightstone and Weakstone",
             layout |-> "meld", type_line |-> <<"Legendary", "Artifact">>]
      [] uri = "uri/c" ->
            [object |-> "card", name |-> "Urza, Planeswalker",
             layout |-> "meld", type_line |-> Planeswalker]
      [] OTHER ->
            [object |-> "card", name |-> "Powerstone",
             layout |-> "token", type_line |-> <<"Token", "Artifact">>]

\* What requests.get(uri).json() can do: deliver the card, deliver an API
\* error payload, or fail in transport.
FetchKinds == {"card", "error", "RequestException"}
ErrorPayload == [object |-> "error", code |-> "not_found"]

(***************************************************************************)
(* process_scryfall_data                                                   *)
(***************************************************************************)

\* Lines 405-410: the meld parts in order, and the last meld result (None
\* when there is none, rendered as the empty list).
MeldFront(data) ==
    SelectSeq(Get(data, "all_parts", <<>>),
              LAMBDA part : Get(part, "component", "") = "meld_part")
MeldBacks(data) ==
    SelectSeq(Get(data, "all_parts", <<>>),
              LAMBDA part : Get(part, "component", "") = "meld_result")

\* Variant: the front is chosen by the name of the first part alone.
MeldFaces_ignore_back(data) ==
    LET front == MeldFront(data)
        backs == MeldBacks(data)
        back == backs[Len(backs)]
    IN  IF backs = <<>> THEN [exc |-> "TypeError", faces |-> <<>>]
        ELSE IF front = <<>> THEN [exc |-> "IndexError", faces |-> <<>>]
        ELSE IF data["name_normalized"] = normalize_str(front[1]["name"])
        THEN [exc |-> "none", faces |-> <<front[1], back>>]
        ELSE IF Len(front) < 2 THEN [exc |-> "IndexError", faces |-> <<>>]
        ELSE [exc |-> "none", faces |-> <<front[2], back>>]

\* Lines 413-416: the two related cards chosen as faces, or the exception
\* that subscripting None or a too short list raises.
MeldFaces(data) ==
    LET front == MeldFront(data)
        backs == MeldBacks(data)
        back == backs[Len(backs)]
    IN  IF backs = <<>> THEN [exc |-> "TypeError", faces |-> <<>>]
        ELSE IF data["name_normalized"] = normalize_str(back["name"])
        THEN IF front = <<>> THEN [exc |-> "IndexError", faces |-> <<>>]
             ELSE [exc |-> "none", faces |-> <<front[1], back>>]
        ELSE IF front = <<>> THEN [exc |-> "IndexError", faces |-> <<>>]
        ELSE IF data["name_normalized"] = normalize_str(front[1]["name"])
        THEN [exc |-> "none", faces |-> <<front[1], back>>]
        ELSE IF Len(front) < 2 THEN [exc |-> "IndexError", faces |-> <<>>]
        ELSE [exc |-> "none", faces |-> <<front[2], back>>]

\* Line 420: one face, {**requests.get(uri).json(), 'object': 'card_face'}.
FetchFace(part, kind) ==
    Put(IF kind = "card" THEN Remote(part["uri"]) ELSE ErrorPayload,
        "object", "card_face")

\* Variant: the meld icon is appended whatever the frame effects hold.
MeldFrameEffects_always_append(data) ==
    Put(data, "frame_effects",
        Append(Get(data, "frame_effects", <<>>), TransformIcons_MELD))

\* Lines 425-426: the frame effects after the meld icon was added if no
\* transform icon was present.
MeldFrameEffects(data) ==
    LET effects == Get(data, "frame_effects", <<>>)
    IN  IF \E i \in 1..Len(effects) : effects[i] \in TransformIcons
        THEN data
        ELSE Put(data, "frame_effects", Append(effects, TransformIcons_MELD))

\* Lines 403-427: the meld block. fetch gives what each of the two face
\* requests does; the result carries the uris requested, in order.
MeldBlock(data, fetch) ==
    IF data["layout"] # "meld" THEN [out |-> Done(data), fetched |-> <<>>]
    ELSE LET chosen == MeldFaces(data) IN
         IF chosen.exc # "none"
         THEN [out |-> Fault(chosen.exc, data), fetched |-> <<>>]
         ELSE LET faces == chosen.faces IN
              IF fetch[1] = "RequestException"
              THEN [out |-> Fault("RequestException", data),
                    fetched |-> <<faces[1]["uri"]>>]
              ELSE IF fetch[2] = "RequestException"
              THEN [out |-> Fault("RequestException", data),
                    fetched |-> <<faces[1]["uri"], faces[2]["uri"]>>]
              ELSE LET withFaces ==
                           Put(data, "card_faces",
                               <<FetchFace(faces[1], fetch[1]),
                                 FetchFace(faces[2], fetch[2])>>)
                   IN  [out |-> Done(Put(MeldFrameEffects(withFaces),
                                         "layout", "transform")),
                        fetched |-> <<faces[1]["uri"], faces[2]["uri"]>>]

\* Lines 432-434: the face the queried name selects.
SelectedFace(data) ==
    IF normalize_str(data["card_faces"][1]["name"]) = data["name_normalized"]
    THEN data["card_faces"][1]
    ELSE data["card_faces"][2]

\* Lines 436-443: the layout the selected face gives the record.
FaceLayout(layout, type_line) ==
    LET pw == IF Contains(type_line, "Planeswalker")
              THEN (IF layout = "transform" THEN "planeswalker_tf"
                    ELSE "planeswalker_mdfc")
              ELSE layout
        saga == IF Contains(type_line, "Saga") THEN "saga" ELSE pw
    IN  IF Contains(type_line, "Battle") THEN "battle" ELSE saga

\* Lines 430-444: the branch for records carrying card_faces.
FaceBlock(data) ==
    LET faces == data["card_faces"] IN
    IF Len(faces) = 0 THEN Fault("IndexError", data)
    ELSE IF ~Has(faces[1], "name") THEN Fault("KeyError", data)
    ELSE IF normalize_str(faces[1]["name"]) # data["name_normalized"]
            /\ Len(faces) < 2
    THEN Fault("IndexError", data)
    ELSE IF ~Has(SelectedFace(data), "type_line") THEN Fault("KeyError", data)
    ELSE Done(Put(data, "layout",
                  FaceLayout(data["layout"], SelectedFace(data)["type_line"])))

\* Variant: the branch for card_faces does not return.
Cascade_fall_through(data) ==
    LET faced == IF Has(data, "card_faces") THEN FaceBlock(data) ELSE Done(data)
    IN  IF faced.exc # "none" THEN faced
        ELSE IF Contains(Get(faced.val, "keywords", <<>>), "Mutate")
        THEN Done(Put(faced.val, "layout", "mutate"))
        ELSE IF Contains(Get(faced.val, "type_line", <<>>), "Planeswalker")
        THEN Done(Put(faced.val, "layout", "planeswalker"))
        ELSE faced

\* Lines 429-457: the classification cascade that follows the meld block.
Cascade(data) ==
    IF Has(data, "card_faces") THEN FaceBlock(data)
    ELSE IF Contains(Get(data, "keywords", <<>>), "Mutate")
    THEN Done(Put(data, "layout", "mutate"))
    ELSE IF Contains(Get(data, "type_line", <<>>), "Planeswalker")
    THEN Done(Put(data, "layout", "planeswalker"))
    ELSE Done(data)

\* process_scryfall_data(data), with what the two face requests of a meld
\* record do: the outcome, the record as the meld block left it, and the
\* uris requested.
process_scryfall_data(data, fetch) ==
    LET meld == MeldBlock(data, fetch)
    IN  [out |-> IF meld.out.exc # "none" THEN meld.out
                 ELSE Cascade(meld.out.val),
         mid |-> meld.out,
         fetched |-> meld.fetched]

(***************************************************************************)
(* SpecProc: process_scryfall_data applied to raw records                  *)
(***************************************************************************)

\* The set {d} with d extended by key k in each way vs allows.
WithOptional(d, k, vs) == {d} \cup {Put(d, k, v) : v \in vs}

\* Lists without repetition of at most n elements of S.
ListsOf(S, n) ==
    {q \in UNION {[1..m -> S] : m \in 0..n} :
        \A a, b \in DOMAIN q : a # b => q[a] # q[b]}
\* Lists of at most n elements of S.
SeqsOf(S, n) == UNION {[1..m -> S] : m \in 0..n}

\* The normalized names a record can be queried under.
QueryNames == {normalize_str(n) : n \in CardNames}

\* Top-level keywords and type line, each absent or present.
WithTopLevel(d) ==
    UNION {WithOptional(k, "type_line", {Creature, Planeswalker}) :
             k \in WithOptional(d, "keywords",
                                {<<>>, <<"Mutate">>, <<"Flying", "Mutate">>})}

\* Raw meld records: related cards in any order, some possibly missing.
RawMeld(q) ==
    UNION {UNION {WithTopLevel(e) :
                    e \in WithOptional(p, "frame_effects",
                            SeqsOf({"legendary", "meld", "sunmoondfc"},
                                   MaxEffects))} :
             p \in WithOptional([object |-> "card", layout |-> "meld",
                                 name_normalized |-> q],
                                "all_parts", ListsOf(Parts, MaxParts))}

\* Raw records that carry card_faces: layouts of two-faced cards.
FaceNames == {"Urza, Lord Protector", "URZA, PLANESWALKER"}
RawFace(n, t) == [object |-> "card_face", name |-> n, type_line |-> t]
RawTwoFace(q) ==
    UNION {WithTopLevel([object |-> "card", layout |-> l, name_normalized |-> q,
                         card_faces |-> <<RawFace(n[1], t1), RawFace(n[2], t2)>>]) :
             l \in {"transform", "modal_dfc", "split"},
             n \in {m \in [1..2 -> FaceNames] : m[1] # m[2]},
             t1 \in TypeLines, t2 \in TypeLines}

\* Raw records of single-faced cards.
RawSingle(q) ==
    UNION {WithTopLevel([object |-> "card", layout |-> l, name_normalized |-> q]) :
             l \in {"normal", "saga", "mutate"}}

\* The raw records queried under the normalized name q.
RawRecords(q) == RawMeld(q) \cup RawTwoFace(q) \cup RawSingle(q)

InitProc ==
    /\ \E q \in QueryNames : raw \in RawRecords(q)
    /\ prev = raw
    /\ rec = Done(raw)
    /\ mid = Done(raw)
    /\ fetched = <<>>
    /\ passes = 0
    /\ ReqIdle
    /\ CardIdle
    /\ SetIdle
    /\ FileIdle
    /\ PageIdle

\* One pass of process_scryfall_data over the record at hand; fetch is what
\* the remote does with the face requests of a meld record.
Process(fetch) ==
    /\ passes < MaxPasses
    /\ rec.exc = "none"
    /\ LET p == process_scryfall_data(rec.val, fetch) IN
        /\ rec' = p.out
        /\ mid' = p.mid
        /\ fetched' = p.fetched
    /\ prev' = rec.val
    /\ passes' = passes + 1
    /\ UNCHANGED <<raw, reqVars, cardVars, setVars, fileVars, pageVars>>

NextProc == \E fetch \in [1..2 -> FetchKinds] : Process(fetch)

SpecProc == InitProc /\ [][NextProc]_vars

(***************************************************************************)
(* REQUEST FUNCTIONS: get_card_unique, get_card_search                     *)
(***************************************************************************)

\* ScryfallError is an exception object, not a dict.
ScryfallError(url) == [exception |-> "ScryfallError", url |-> url]
IsDict(v) == ~Has(v, "exception")

\* check_playable_card
check_playable_card(card_json) ==
    /\ Get(card_json, "set_type", "") \notin {"minigame"}
    /\ Get(card_json, "layout", "") \notin {"art_series", "reversible_card"}

\* Cards of the remote database.
Damnation ==
    [object |-> "card", name |-> "Damnation", layout |-> "normal",
     set_type |-> "masters", type_line |-> <<"Sorcery">>]
DamnationArt ==
    [object |-> "card", name |-> "Damnation", layout |-> "art_series",
     set_type |-> "memorabilia", type_line |-> <<"Card">>]
UrzaMeld ==
    [object |-> "card", name |-> "Urza, Planeswalker", layout |-> "meld",
     set_type |-> "expansion", type_line |-> Planeswalker,
     all_parts |-> <<PartA, PartB, PartC>>]
UrzaMeldNoResult ==
    [object |-> "card", name |-> "Urza, Planeswalker", layout |-> "meld",
     set_type |-> "expansion", type_line |-> Planeswalker,
     all_parts |-> <<PartA, PartT>>]
RemoteCards == {Damnation, DamnationArt, UrzaMeld, UrzaMeldNoResult}

\* The cards a lookup can match: any card by set and number, the cards of
\* the queried name by name.
Matching ==
    IF args.card_number # "" THEN RemoteCards
    ELSE {c \in RemoteCards :
            normalize_str(c["name"]) = normalize_str(args.card_name)}

\* What the remote does with one lookup: fail in transport, deliver a body
\* that is not JSON, or answer with the cards that match (none: an API error
\* payload).
Responses ==
    {[kind |-> "RequestException", cards |-> <<>>],
     [kind |-> "not json", cards |-> <<>>]}
    \cup {[kind |-> "json", cards |-> c] : c \in SeqsOf(Matching, MaxCards)}

\* Body of get_card_unique called with keyword arguments kwargs: its outcome
\* and the requests it made. It has no parameter named extras.
get_card_unique(kwargs, resp) ==
    IF Has(kwargs, "extras")
    THEN [out |-> Fault("TypeError", <<>>), reqs |-> <<>>]
    ELSE LET lang == Get(kwargs, "lang", "en")
             req == [endpoint |-> "cards/collector", lang |-> lang,
                     include_extras |-> "-"]
             card == IF resp.cards = <<>> THEN ErrorPayload ELSE resp.cards[1]
         IN  [reqs |-> <<req>>,
              out |->
                IF resp.kind = "RequestException"
                THEN Fault("RequestException", <<>>)
                ELSE IF resp.kind = "not json" THEN Fault("ValueError", <<>>)
                ELSE IF Get(card, "object", "") # "error"
                        /\ check_playable_card(card)
                THEN Done(card)
                ELSE Done(ScryfallError("cards/collector"))]

\* Body of get_card_search called with keyword arguments kwargs.
get_card_search(kwargs, resp) ==
    LET lang == Get(kwargs, "lang", "en")
        extras == Get(kwargs, "extras", FALSE)
        req == [endpoint |-> "cards/search", lang |-> lang,
                include_extras |->
                    IF (IF extras THEN extras ELSE cfg.scry_extras)
                    THEN "true" ELSE "false"]
        card == IF resp.cards = <<>> THEN ErrorPayload
                ELSE [object |-> "list", data |-> resp.cards]
        playable == SelectSeq(Get(card, "data", <<>>), check_playable_card)
    IN  [reqs |-> <<req>>,
         out |->
           IF resp.kind = "RequestException"
           THEN Fault("RequestException", <<>>)
           ELSE IF resp.kind = "not json" THEN Fault("ValueError", <<>>)
           ELSE IF playable # <<>> THEN Done(playable[1])
           ELSE Done(ScryfallError("cards/search"))]

\* A call of the decorated function f: the body runs under
\* handle_final_exception, which leaves on_exception nothing to retry.
RequestCall(f, body) ==
    LET attempt ==
            handle_final_exception(fail_response(f),
                IF body.out.exc = "none" THEN Returned("data")
                ELSE Raise(body.out.exc))
    IN  [reqs |-> body.reqs,
         out |-> IF attempt.exc # "none" THEN Fault(attempt.exc, <<>>)
                 ELSE IF attempt.val = "data" THEN body.out
                 ELSE Done(ScryfallError(""))]

(***************************************************************************)
(* INTERMEDIARIES: get_card_data                                           *)
(***************************************************************************)

\* Line 118-119: action(*params, **kwargs).
action(kwargs, resp) ==
    IF args.card_number # ""
    THEN RequestCall("get_card_unique", get_card_unique(kwargs, resp))
    ELSE RequestCall("get_card_search", get_card_search(kwargs, resp))

\* Variant: the English lookup follows whatever the localized one returned.
AfterLocalized_always_english(card) == "english"

\* Lines 126-131: where get_card_data goes after the localized lookup.
AfterLocalized(card) == IF IsDict(card) THEN "done" ELSE "english"

\* Lines 135-141: where get_card_data goes after the English lookup.
AfterEnglish(card) ==
    IF ~IsDict(card) /\ ~cfg.scry_extras THEN "extras" ELSE "done"

\* Lines 138-141 (and 126-128): get_card_data ends with the card looked up.
Finish(card, fetch) ==
    IF IsDict(card)
    THEN LET p == process_scryfall_data(
                      Put(card, "name_normalized", normalize_str(args.card_name)),
                      fetch)
         IN  [out |-> p.out,
              reqs |-> [i \in 1..Len(p.fetched) |->
                          [endpoint |-> p.fetched[i], lang |-> "-",
                           include_extras |-> "-"]]]
    ELSE [out |-> Done(card), reqs |-> <<>>]

\* One lookup of get_card_data and what follows it up to the next lookup.
\* A fault of the lookup itself ends get_card_data with that fault.
Lookup(step, kwargs, resp, fetch) ==
    LET call == action(kwargs, resp)
        after(card) == CASE step = "localized" -> AfterLocalized(card)
                         [] step = "english" -> AfterEnglish(card)
                         [] OTHER -> "done"
    IN
    IF call.out.exc # "none"
    THEN /\ gpc' = "done"
         /\ ret' = call.out
         /\ results' = results
         /\ http' = http \o call.reqs
    ELSE LET card == call.out.val
             end == Finish(card, fetch)
         IN  /\ results' = Append(results, card)
             /\ gpc' = after(card)
             /\ IF after(card) = "done"
                THEN /\ ret' = end.out
                     /\ http' = http \o call.reqs \o end.reqs
                ELSE /\ ret' = ret
                     /\ http' = http \o call.reqs

InitCard ==
    /\ cfg \in [lang : {"en", "ja"}, scry_extras : BOOLEAN]
    /\ args \in [card_name : {"Damnation", "URZA, PLANESWALKER"},
                 card_set : {"", "BRO"}, card_number : {"", "007"}]
    /\ gpc = "start"
    /\ results = <<>>
    /\ http = <<>>
    /\ ret = [exc |-> "none", val |-> [layout |-> "-"]]
    /\ ReqIdle
    /\ ProcIdle
    /\ SetIdle
    /\ FileIdle
    /\ PageIdle

\* Lines 122-131: the lookup in the configured language.
LookupLocalized(resp, fetch) ==
    /\ gpc = "start"
    /\ cfg.lang # "en"
    /\ Lookup("localized", [lang |-> cfg.lang], resp, fetch)
    /\ UNCHANGED <<cfg, args, reqVars, procVars, setVars, fileVars, pageVars>>

\* Lines 134-135: the lookup in English.
LookupEnglish(resp, fetch) ==
    /\ \/ gpc = "start" /\ cfg.lang = "en"
       \/ gpc = "english"
    /\ Lookup("english", <<>>, resp, fetch)
    /\ UNCHANGED <<cfg, args, reqVars, procVars, setVars, fileVars, pageVars>>

\* Line 136: the lookup with extras forced on.
LookupExtras(resp, fetch) ==
    /\ gpc = "extras"
    /\ Lookup("extras", [extras |-> TRUE], resp, fetch)
    /\ UNCHANGED <<cfg, args, reqVars, procVars, setVars, fileVars, pageVars>>

Next ==
    \/ \E resp \in Responses, fetch \in [1..2 -> FetchKinds] :
          LookupLocalized(resp, fetch)
    \/ \E resp \in Responses, fetch \in [1..2 -> FetchKinds] :
          LookupEnglish(resp, fetch)
    \/ \E resp \in Responses, fetch \in [1..2 -> FetchKinds] :
          LookupExtras(resp, fetch)

Spec == InitCard /\ [][Next]_vars


(***************************************************************************)
(* REQUEST FUNCTIONS: get_set_mtgjson, get_set_scryfall                    *)
(***************************************************************************)

\* dict.update(e) on d
Update(d, e) ==
    [k \in DOMAIN d \cup DOMAIN e |-> IF k \in DOMAIN e THEN e[k] ELSE d[k]]

\* d after the keys ks were popped
Without(d, ks) == [k \in DOMAIN d \ ks |-> d[k]]

\* bool(d) of a dict
Truthy(d) == DOMAIN d # {}

\* Set codes that callers pass, and str.upper on them.
SetCodes == {"mh2", "MH2", "tmh2"}

upper(code) ==
    CASE code = "mh2" -> "MH2"
      [] code = "tmh2" -> "TMH2"
      [] OTHER -> code

\* Path(con.path_data_sets, f"SET-{card_set.upper()}.json")
SetPath(code) == IF upper(code) = "TMH2" THEN "SET-TMH2.json" ELSE "SET-MH2.json"

Paths == {SetPath(c) : c \in SetCodes}

MTGJSON_SET_DATA_EXTRA == {"sealedProduct", "booster", "cards"}

\* Set objects of the Scryfall API.
ScryMH2 ==
    [object |-> "set", code |-> "mh2", name |-> "Modern Horizons 2",
     set_type |-> "draft_innovation", card_count |-> 491, printed_size |-> 303]
ScryTMH2 ==
    [object |-> "set", code |-> "tmh2", name |-> "Modern Horizons 2 Tokens",
     set_type |-> "token", parent_set_code |-> "mh2", card_count |-> 22]

\* What the Scryfall set endpoint does with a request for code: fail in
\* transport, deliver a body that is not JSON, or answer with an object: an
\* error object, or the set, with or without its printed size.
ScryResponses(code) ==
    {[kind |-> "RequestException", json |-> <<>>],
     [kind |-> "not json", json |-> <<>>],
     [kind |-> "json", json |-> [object |-> "error", code |-> "not_found"]]}
    \cup {[kind |-> "json", json |-> x] :
            x \in IF upper(code) = "TMH2" THEN {ScryTMH2}
                  ELSE {ScryMH2, Without(ScryMH2, {"printed_size"})}}

\* Set objects of the MTGJSON API, inside their 'data' envelope.
MtgMH2 ==
    [name |-> "Modern Horizons 2", code |-> "MH2", baseSetSize |-> 303,
     tokens |-> <<"Squirrel", "Golem">>, sealedProduct |-> "...",
     booster |-> "...", cards |-> "..."]

\* What MTGJSON does with a request: fail in transport, deliver a body that
\* is not JSON, or answer with an object: one without 'data', or the set,
\* whole or lacking its tokens, its booster data or its name.
MtgResponses ==
    {[kind |-> "RequestException", json |-> <<>>],
     [kind |-> "not json", json |-> <<>>],
     [kind |-> "json", json |-> <<>>]}
    \cup {[kind |-> "json", json |-> [data |-> Without(MtgMH2, ks)]] :
            ks \in {{}, {"tokens"}, {"booster"}, {"name"}}}

\* Variant: the stripped data is returned whether it has a name or not.
get_set_mtgjson_unnamed(resp) ==
    IF resp.kind = "RequestException" THEN Fault("RequestException", <<>>)
    ELSE IF resp.kind = "not json" THEN Fault("JSONDecodeError", <<>>)
    ELSE LET j == Get(resp.json, "data", <<>>)
             counted == Put(Without(j, {"tokens"}), "tokenCount",
                            Len(Get(j, "tokens", <<>>)))
         IN  IF ~(MTGJSON_SET_DATA_EXTRA \subseteq DOMAIN counted)
             THEN Fault("KeyError", <<>>)
             ELSE Done(Without(counted, MTGJSON_SET_DATA_EXTRA))

\* Body of get_set_mtgjson.
get_set_mtgjson(resp) ==
    IF resp.kind = "RequestException" THEN Fault("RequestException", <<>>)
    ELSE IF resp.kind = "not json" THEN Fault("JSONDecodeError", <<>>)
    ELSE LET j == Get(resp.json, "data", <<>>)
             counted == Put(Without(j, {"tokens"}), "tokenCount",
                            Len(Get(j, "tokens", <<>>)))
         IN  IF ~(MTGJSON_SET_DATA_EXTRA \subseteq DOMAIN counted)
             THEN Fault("KeyError", <<>>)
             ELSE LET stripped == Without(counted, MTGJSON_SET_DATA_EXTRA)
                  IN  Done(IF Get(stripped, "name", "") # ""
                           THEN stripped ELSE <<>>)

\* Body of get_set_scryfall.
get_set_scryfall(resp) ==
    IF resp.kind = "RequestException" THEN Fault("RequestException", <<>>)
    ELSE IF resp.kind = "not json" THEN Fault("JSONDecodeError", <<>>)
    ELSE LET j == IF Has(resp.json, "scryfall") THEN resp.json
                  ELSE Put(resp.json, "scryfall", TRUE)
         IN  Done(IF Get(j, "name", "") # "" THEN j ELSE <<>>)

\* A call of the decorated set function f: a dict the body built, or the one
\* dict object that was passed to handle_request_failure as fail_response,
\* the same object at every failure (alias).
SetRequestCall(f, body) ==
    LET attempt ==
            handle_final_exception(fail_response(f),
                IF body.exc = "none" THEN Returned("data") ELSE Raise(body.exc))
    IN  IF attempt.val = "data" THEN [alias |-> FALSE, val |-> body.val]
        ELSE [alias |-> TRUE, val |-> <<>>]


(***************************************************************************)
(* INTERMEDIARIES: get_set_data                                            *)
(***************************************************************************)

\* dump_data_file: the JSON text of a dict, taken as the set of its members.
dump_data_file(d) == {<<k, d[k]>> : k \in DOMAIN d}

\* Variant: a file that is being written reads as the members written so
\* far.
load_data_file_torn(f) ==
    IF f.state \in {"file", "writing"}
    THEN LET text == IF f.state = "file" THEN f.data
                     ELSE {m \in f.data : m[1] \in {"scryfall", "name"}}
         IN  Done([k \in {m[1] : m \in text} |->
                     (CHOOSE m \in text : m[1] = k)[2]])
    ELSE Fault("JSONDecodeError", <<>>)

\* load_data_file: the dict a complete JSON text holds; a file that is being
\* written or is damaged does not parse.
load_data_file(f) ==
    IF f.state = "file"
    THEN Done([k \in {m[1] : m \in f.data} |->
                 (CHOOSE m \in f.data : m[1] = k)[2]])
    ELSE Fault("JSONDecodeError", <<>>)

\* Variant: the data file is never used.
CacheHit_never(f) == FALSE

\* Lines 151-159: the data file exists, loads and has the key 'scryfall'.
CacheHit(f) ==
    /\ f.state # "absent"
    /\ load_data_file(f).exc = "none"
    /\ Has(load_data_file(f).val, "scryfall")

\* The dict data_scry of job j refers to.
Value(j) == IF data_scry[j].alias THEN fail_scry ELSE data_scry[j].val

\* Line 171, evaluated after line 168: merged is the dict data_scry refers
\* to, after update.
ShouldSave(mtg, merged) ==
    (Truthy(mtg) /\ Truthy(merged)) \/ Has(merged, "printed_size")

\* A job calls get_set_data(code).
SetCall(j, code) ==
    /\ spc[j] \in {"idle", "done"}
    /\ resolves[j] < MaxResolves
    /\ spc' = [spc EXCEPT ![j] = "read"]
    /\ card_set' = [card_set EXCEPT ![j] = code]
    /\ data_scry' = [data_scry EXCEPT ![j] = [alias |-> FALSE, val |-> <<>>]]
    /\ data_mtg' = [data_mtg EXCEPT ![j] = <<>>]
    /\ set_ret' = [set_ret EXCEPT ![j] = <<>>]
    /\ seen' = [seen EXCEPT ![j] = [path |-> SetPath(code), file |-> NoFile]]
    /\ net' = [net EXCEPT ![j] = <<>>]
    /\ wrote' = [wrote EXCEPT ![j] = <<>>]
    /\ resolves' = [resolves EXCEPT ![j] = @ + 1]
    /\ prior' = [prior EXCEPT ![j] =
                   IF wrote[j] = <<>> THEN NoDump
                   ELSE [dumped |-> TRUE, path |-> seen[j].path,
                         data |-> wrote[j][Len(wrote[j])]]]
    /\ UNCHANGED <<cache, fail_scry, remote, base>>
    /\ UNCHANGED <<reqVars, procVars, cardVars, fileVars, pageVars>>

\* Lines 150-159: the data file is looked for and loaded.
SetRead(j) ==
    /\ spc[j] = "read"
    /\ LET f == cache[seen[j].path] IN
        /\ seen' = [seen EXCEPT ![j].file = f]
        /\ IF CacheHit(f)
           THEN /\ set_ret' = [set_ret EXCEPT ![j] = load_data_file(f).val]
                /\ spc' = [spc EXCEPT ![j] = "done"]
           ELSE /\ spc' = [spc EXCEPT ![j] = "scry"]
                /\ UNCHANGED set_ret
    /\ UNCHANGED <<cache, fail_scry, remote, base, card_set, data_scry,
                   data_mtg, net, wrote, resolves, prior>>
    /\ UNCHANGED <<reqVars, procVars, cardVars, fileVars, pageVars>>

\* Lines 162-164: the Scryfall lookup and the check for a token set.
SetScryfall(j, resp) ==
    /\ spc[j] = "scry"
    /\ LET call == SetRequestCall("get_set_scryfall", get_set_scryfall(resp))
           d == IF call.alias THEN fail_scry ELSE call.val
       IN  /\ data_scry' = [data_scry EXCEPT ![j] = call]
           /\ net' = [net EXCEPT ![j] =
                        Append(@, [provider |-> "scryfall",
                                   code |-> upper(card_set[j]), got |-> d])]
           /\ card_set' = [card_set EXCEPT ![j] =
                            IF Get(d, "set_type", "") = "token"
                            THEN Get(d, "parent_set_code", @) ELSE @]
    /\ spc' = [spc EXCEPT ![j] = "mtg"]
    /\ UNCHANGED <<cache, fail_scry, remote, base, data_mtg, set_ret, seen,
                   wrote, resolves, prior>>
    /\ UNCHANGED <<reqVars, procVars, cardVars, fileVars, pageVars>>

\* Lines 167-168: the MTGJSON lookup, folded into the dict data_scry refers to.
SetMtgjson(j, resp) ==
    /\ spc[j] = "mtg"
    /\ LET call == SetRequestCall("get_set_mtgjson", get_set_mtgjson(resp)) IN
        /\ data_mtg' = [data_mtg EXCEPT ![j] = call.val]
        /\ IF data_scry[j].alias
           THEN /\ fail_scry' = Update(fail_scry, call.val)
                /\ UNCHANGED data_scry
           ELSE /\ data_scry' = [data_scry EXCEPT ![j].val = Update(@, call.val)]
                /\ UNCHANGED fail_scry
    /\ net' = [net EXCEPT ![j] =
                 Append(@, [provider |-> "mtgjson", code |-> upper(card_set[j]),
                            got |-> SetRequestCall("get_set_mtgjson",
                                                   get_set_mtgjson(resp)).val])]
    /\ spc' = [spc EXCEPT ![j] = "save"]
    /\ UNCHANGED <<cache, remote, base, card_set, set_ret, seen, wrote, resolves, prior>>
    /\ UNCHANGED <<reqVars, procVars, cardVars, fileVars, pageVars>>

\* Lines 171-176: the test for saving and the start of dump_data_file, which
\* opens the file for writing (ok) or raises, the exception being logged.
SetSave(j, ok) ==
    /\ spc[j] = "save"
    /\ IF ShouldSave(data_mtg[j], Value(j)) /\ ok
       THEN /\ cache' = [cache EXCEPT ![seen[j].path] =
                           [state |-> "writing",
                            data |-> dump_data_file(Value(j))]]
            /\ wrote' = [wrote EXCEPT ![j] = Append(@, Value(j))]
            /\ spc' = [spc EXCEPT ![j] = "dump"]
       ELSE /\ spc' = [spc EXCEPT ![j] = "return"]
            /\ UNCHANGED <<cache, wrote>>
    /\ UNCHANGED <<fail_scry, remote, base, card_set, data_scry, data_mtg,
                   set_ret, seen, net, resolves, prior>>
    /\ UNCHANGED <<reqVars, procVars, cardVars, fileVars, pageVars>>

\* Line 174: dump_data_file completes; the file is whole once no other job
\* is still writing it.
SetDumped(j) ==
    /\ spc[j] = "dump"
    /\ cache' = [cache EXCEPT ![seen[j].path] =
                   [state |-> IF \E k \in SetJobs \ {j} :
                                    spc[k] = "dump" /\ seen[k].path = seen[j].path
                              THEN "writing" ELSE "file",
                    data |-> dump_data_file(wrote[j][Len(wrote[j])])]]
    /\ spc' = [spc EXCEPT ![j] = "return"]
    /\ UNCHANGED <<fail_scry, remote, base, card_set, data_scry, data_mtg,
                   set_ret, seen, net, wrote, resolves, prior>>
    /\ UNCHANGED <<reqVars, procVars, cardVars, fileVars, pageVars>>

\* Line 179: get_set_data returns the dict data_scry refers to.
SetReturn(j) ==
    /\ spc[j] = "return"
    /\ set_ret' = [set_ret EXCEPT ![j] = Value(j)]
    /\ spc' = [spc EXCEPT ![j] = "done"]
    /\ UNCHANGED <<cache, fail_scry, remote, base, card_set, data_scry,
                   data_mtg, seen, net, wrote, resolves, prior>>
    /\ UNCHANGED <<reqVars, procVars, cardVars, fileVars, pageVars>>

\* What get_set_mtgjson makes of the set object.
MtgStripped == get_set_mtgjson([kind |-> "json", json |-> [data |-> MtgMH2]]).val

\* Data files a run can find: none, a damaged one, one a resolve with both
\* lookups wrote, one without the key 'scryfall'.
InitFiles ==
    {NoFile, [state |-> "corrupt", data |-> {}],
     [state |-> "file",
      data |-> dump_data_file(
                   Update(get_set_scryfall([kind |-> "json", json |-> ScryMH2]).val,
                          MtgStripped))],
     [state |-> "file", data |-> dump_data_file(MtgStripped)]}

\* SpecSet: one job resolving sets one after the other, the providers
\* answering each request as they will.
InitSet ==
    /\ cache \in [Paths -> InitFiles]
    /\ fail_scry = <<>>
    /\ remote = [scry |-> [kind |-> "-", json |-> <<>>],
                 mtg |-> [kind |-> "-", json |-> <<>>]]
    /\ base = <<>>
    /\ card_set = [j \in SetJobs |-> "-"]
    /\ spc = [j \in SetJobs |-> "idle"]
    /\ data_scry = [j \in SetJobs |-> [alias |-> FALSE, val |-> <<>>]]
    /\ data_mtg = [j \in SetJobs |-> <<>>]
    /\ set_ret = [j \in SetJobs |-> <<>>]
    /\ seen = [j \in SetJobs |-> [path |-> "-", file |-> NoFile]]
    /\ net = [j \in SetJobs |-> <<>>]
    /\ wrote = [j \in SetJobs |-> <<>>]
    /\ resolves = [j \in SetJobs |-> 0]
    /\ prior = [j \in SetJobs |-> NoDump]
    /\ ReqIdle
    /\ ProcIdle
    /\ CardIdle
    /\ FileIdle
    /\ PageIdle

NextSet ==
    \/ \E code \in SetCodes : SetCall(1, code)
    \/ SetRead(1)
    \/ \E resp \in ScryResponses(card_set[1]) : SetScryfall(1, resp)
    \/ \E resp \in MtgResponses : SetMtgjson(1, resp)
    \/ \E ok \in BOOLEAN : SetSave(1, ok)
    \/ SetDumped(1)
    \/ SetReturn(1)

SpecSet == InitSet /\ [][NextSet]_vars


\* get_set_data(code) run by itself, from no data file and with the
\* fail_response dict of get_set_scryfall being d0: what it returns and the
\* data file it leaves.
Resolve(d0, scry, mtg) ==
    LET primary == SetRequestCall("get_set_scryfall", get_set_scryfall(scry))
        data_mtg0 == SetRequestCall("get_set_mtgjson", get_set_mtgjson(mtg)).val
        merged == Update(IF primary.alias THEN d0 ELSE primary.val, data_mtg0)
    IN  [ret |-> merged,
         file |-> IF ShouldSave(data_mtg0, merged)
                  THEN [state |-> "file", data |-> dump_data_file(merged)]
                  ELSE NoFile]

\* SpecSetJobs: render jobs that each resolve the same set once, none of
\* them finding a data file at the start, the providers answering every job
\* alike. The fail_response dict may hold what earlier resolves folded in.
InitSetJobs ==
    /\ cache = [p \in Paths |-> NoFile]
    /\ fail_scry \in {<<>>, MtgStripped,
                      get_set_mtgjson(
                          [kind |-> "json",
                           json |-> [data |-> Without(MtgMH2, {"tokens"})]]).val}
    /\ base = fail_scry
    /\ \E code \in SetCodes :
          remote \in [code : {code}, scry : ScryResponses(code), mtg : MtgResponses]
    /\ card_set = [j \in SetJobs |-> "-"]
    /\ spc = [j \in SetJobs |-> "idle"]
    /\ data_scry = [j \in SetJobs |-> [alias |-> FALSE, val |-> <<>>]]
    /\ data_mtg = [j \in SetJobs |-> <<>>]
    /\ set_ret = [j \in SetJobs |-> <<>>]
    /\ seen = [j \in SetJobs |-> [path |-> "-", file |-> NoFile]]
    /\ net = [j \in SetJobs |-> <<>>]
    /\ wrote = [j \in SetJobs |-> <<>>]
    /\ resolves = [j \in SetJobs |-> 0]
    /\ prior = [j \in SetJobs |-> NoDump]
    /\ ReqIdle
    /\ ProcIdle
    /\ CardIdle
    /\ FileIdle
    /\ PageIdle

NextSetJobs ==
    \/ \E j \in SetJobs : resolves[j] = 0 /\ SetCall(j, remote.code)
    \/ \E j \in SetJobs : SetRead(j)
    \/ \E j \in SetJobs : SetScryfall(j, remote.scry)
    \/ \E j \in SetJobs : SetMtgjson(j, remote.mtg)
    \/ \E j \in SetJobs : SetSave(j, TRUE)
    \/ \E j \in SetJobs : SetDumped(j)
    \/ \E j \in SetJobs : SetReturn(j)

SpecSetJobs == InitSetJobs /\ [][NextSetJobs]_vars


(***************************************************************************)
(* REQUEST FUNCTIONS: get_cards_paged, get_cards_oracle                    *)
(***************************************************************************)

\* The url of page i of the result list, and what the remote answers for it.
PageUrl(i) == [endpoint |-> "cards/search", page |-> i]

PageResponse(i) ==
    IF i < Len(pages)
    THEN [data |-> pages[i], has_more |-> TRUE, next_page |-> PageUrl(i + 1)]
    ELSE [data |-> pages[i], has_more |-> FALSE]

\* Body of get_cards_paged(url, all_pages) for the url of page i: its outcome
\* and the requests it made. Line 270 subscripts the method res.get, which
\* raises TypeError while the arguments of the inner call are evaluated.
get_cards_paged(i, all_pages, kind) ==
    LET res == PageResponse(i)
        cards == Get(res, "data", <<>>)
    IN  [reqs |-> <<[url |-> PageUrl(i), kind |-> kind]>>,
         out |->
           IF kind = "RequestException" THEN Fault("RequestException", <<>>)
           ELSE IF all_pages /\ Get(res, "has_more", FALSE) /\ Has(res, "next_page")
           THEN Fault("TypeError", <<>>)
           ELSE Done(cards)]

\* A call of a function decorated with handle_request_failure([]).
ListRequestCall(f, body) ==
    LET attempt ==
            handle_final_exception(fail_response(f),
                IF body.out.exc = "none" THEN Returned("data")
                ELSE Raise(body.out.exc))
    IN  [reqs |-> body.reqs,
         out |-> IF attempt.val = "data" THEN body.out ELSE Done(<<>>)]

\* Body of get_cards_oracle: the decorated get_cards_paged on the first page.
get_cards_oracle(all_pages, kind) ==
    ListRequestCall("get_cards_paged", get_cards_paged(1, all_pages, kind))

\* A caller asks for a card list.
PagedCall(f, all_pages, kind) ==
    /\ ppc.at = "start"
    /\ LET call == ListRequestCall(f,
                       IF f = "get_cards_oracle"
                       THEN get_cards_oracle(all_pages, kind)
                       ELSE get_cards_paged(1, all_pages, kind))
       IN  /\ paged' = call.out
           /\ page_http' = call.reqs
    /\ ppc' = [at |-> "done", f |-> f, all_pages |-> all_pages]
    /\ UNCHANGED pages
    /\ UNCHANGED <<reqVars, procVars, cardVars, setVars, fileVars>>

\* SpecPaged: one call for a result list of up to MaxPages pages.
InitPaged ==
    /\ pages \in SeqsOf(SeqsOf({"c1", "c2"}, MaxCards), MaxPages) \ {<<>>}
    /\ ppc = [at |-> "start", f |-> "-", all_pages |-> FALSE]
    /\ paged = [exc |-> "none", val |-> <<>>]
    /\ page_http = <<>>
    /\ ReqIdle
    /\ ProcIdle
    /\ CardIdle
    /\ SetIdle
    /\ FileIdle

NextPaged ==
    \E f \in {"get_cards_paged", "get_cards_oracle"}, all_pages \in BOOLEAN,
       kind \in {"json", "RequestException"} :
        PagedCall(f, all_pages, kind)

SpecPaged == InitPaged /\ [][NextPaged]_vars


(***************************************************************************)
(* File names: strings as sequences of characters                          *)
(***************************************************************************)

\* Python's None where a string is expected.
None == <<"None">>

Min(S) == CHOOSE x \in S : \A y \in S : x <= y
Max(S) == CHOOSE x \in S : \A y \in S : x >= y

\* str.upper
str_upper(s) ==
    LET UpperChar(c) ==
            CASE c = "e" -> "E" [] c = "g" -> "G" [] c = "h" -> "H"
              [] c = "j" -> "J" [] c = "m" -> "M" [] c = "n" -> "N"
              [] c = "o" -> "O" [] c = "p" -> "P" [] c = "r" -> "R"
              [] c = "s" -> "S" [] c = "t" -> "T" [] OTHER -> c
    IN  [i \in 1..Len(s) |-> UpperChar(s[i])]

\* str.strip
RECURSIVE strip(_)
strip(s) ==
    IF s # <<>> /\ s[1] = " " THEN strip(Tail(s))
    ELSE IF s # <<>> /\ s[Len(s)] = " " THEN strip(SubSeq(s, 1, Len(s) - 1))
    ELSE s

\* re.findall(r'\o+(.*?)\c', s) for an opening bracket o and its closing
\* bracket c: the first group found, or None when the list is empty. A match
\* starts at an o that some c follows, takes the run of o there, and ends at
\* the first c after the run.
FirstTag(s, o, c) ==
    LET from == {i \in 1..Len(s) : s[i] = o /\ \E j \in (i + 1)..Len(s) : s[j] = c}
    IN  IF from = {} THEN None
        ELSE LET i == Min(from)
                 k == Min({n \in i..Len(s) : s[n] # o})
                 j == Min({n \in k..Len(s) : s[n] = c})
             IN  SubSeq(s, k, j - 1)

\* The names of the card files in use, and the tags they can carry.
Forest == <<"F", "o", "r", "e", "s", "t">>

\* The text of the tags of the given kinds, in their order.
RECURSIVE TagsText(_, _)
TagsText(kinds, set_tag) ==
    IF kinds = <<>> THEN <<>>
    ELSE (CASE kinds[1] = "creator" -> <<" ", "{", "M", "e", "}">>
            [] kinds[1] = "artist" -> <<" ", "(", "J", "o", ")">>
            [] OTHER -> <<" ", "[">> \o set_tag \o <<"]">>)
         \o TagsText(Tail(kinds), set_tag)

\* A file named after a card, with some of the three tags in some order.
Files ==
    {[text |-> name \o TagsText(kinds, set_tag) \o ext, name |-> name,
      tags |-> kinds,
      set |-> IF Contains(kinds, "set") THEN set_tag ELSE None] :
        name \in {Forest, <<"O", "p", "t">>},
        kinds \in ListsOf({"creator", "artist", "set"}, 3),
        set_tag \in {<<"S", "E", "T", "1", "2", "3">>, <<"m", "h", "2">>},
        ext \in {<<".", "p", "n", "g">>, <<".", "j", "p", "e", "g">>}}

(***************************************************************************)
(* render.py: retrieve_card_info, render                                   *)
(***************************************************************************)

\* retrieve_card_info(filename)
retrieve_card_info(filename) ==
    LET cut == SubSeq(filename, 1, Len(filename) - 4)
        sep == {i \in 1..(Len(cut) - 1) :
                  cut[i] = " " /\ cut[i + 1] \in {"{", "[", "("}}
    IN  [name |-> IF sep = {} THEN cut ELSE SubSeq(cut, 1, Min(sep) - 1),
         artist |-> FirstTag(filename, "(", ")"),
         set |-> FirstTag(filename, "[", "]"),
         creator |-> FirstTag(filename, "{", "}")]


\* con.basic_land_names
basic_land_names == {Forest, <<"I", "s", "l", "a", "n", "d">>}

\* layouts.BasicLand(name, artist, set_code)
BasicLand(name, artist, set_code) ==
    [card_class |-> "basic", name |-> name, artist |-> artist, set |-> set_code]

\* layouts.layout_map: the constructor of each supported layout, applied to
\* (scryfall, name).
layout_map == [l \in {"normal", "transform", "planeswalker"} |-> l]

LayoutObject(scryfall, name) ==
    [card_class |-> layout_map[scryfall["layout"]], name |-> name,
     artist |-> Get(scryfall, "artist", None), set |-> Get(scryfall, "set", None)]

\* What scry.card_info can return: a card record, or the typed error value,
\* which is an exception object and cannot be subscripted.
CardInfos ==
    LET OptCard ==
            [object |-> "card", name |-> <<"O", "p", "t">>, layout |-> "normal",
             set |-> <<"m", "h", "2">>, artist |-> <<"T", "e", "g">>,
             collector_number |-> <<"1">>]
    IN  {OptCard, [OptCard EXCEPT !.layout = "vanguard"],
         Without(OptCard, {"collector_number"}), ScryfallError("cards/search")}

\* What scry.set_info can return.
SetInfos ==
    {[printed_size |-> "303", card_count |-> "491"], [card_count |-> "491"], <<>>}

\* The merged templates.json that loader.get_template selects from: the
\* templates of each layout class.
MainJsons ==
    {[l \in ls |-> [default |-> "NormalTemplate",
                    other |-> [t \in {"Classic"} |-> "ClassicTemplate"]]] :
        ls \in {{"normal", "basic"}, {"normal"}}}

\* loader.get_template(template, layout), lines 56-62.
get_template(template, layout, main_json) ==
    IF layout \in DOMAIN main_json
    THEN IF template \in DOMAIN main_json[layout].other
         THEN main_json[layout].other[template]
         ELSE main_json[layout].default
    ELSE "None"

\* bool(s) for a string or None
TruthyStr(s) == s # None /\ s # <<>>

\* render(file, template) for a template name: what the job did. scryfall,
\* mtgset and main_json are what card_info, set_info and the template files
\* deliver when the job asks for them.
render(filename, template, scryfall, mtgset, main_json) ==
    LET card == retrieve_card_info(filename)
        begun == [NoJob EXCEPT !.card = card]
        looked == <<[call |-> "card_info", name |-> card.name, set |-> card.set,
                     got |-> scryfall]>>
        \* Lines 82-104, scry_bound: the name scryfall is bound.
        Select(layout, lookups, scry_bound) ==
            LET card_template == get_template(template, layout.card_class, main_json)
            IN  IF card_template # "None"
                THEN [begun EXCEPT
                        !.layout =
                            Put(Put(layout, "collector_number",
                                    IF scry_bound /\ Has(scryfall, "collector_number")
                                    THEN scryfall["collector_number"] ELSE None),
                                "creator",
                                IF TruthyStr(card.creator) THEN card.creator ELSE None),
                        !.lookups = lookups,
                        !.template = card_template,
                        !.executed = TRUE]
                ELSE [begun EXCEPT
                        !.layout = layout,
                        !.lookups = lookups,
                        !.template = "None",
                        !.prompt = "No template found for layout",
                        !.exited = TRUE]
    IN  IF card.name \in basic_land_names
        THEN \* Line 56: None has no method upper.
             IF card.set = None THEN [begun EXCEPT !.exc = "AttributeError"]
             ELSE Select(BasicLand(card.name, card.artist, str_upper(card.set)),
                         <<>>, FALSE)
        ELSE \* Lines 64-67: scryfall['layout'] is evaluated in the try block
             \* and again in the handler, for the prompt.
             IF ~IsDict(scryfall)
             THEN [begun EXCEPT !.exc = "TypeError", !.lookups = looked]
             ELSE IF ~Has(scryfall, "layout")
             THEN [begun EXCEPT !.exc = "KeyError", !.lookups = looked]
             ELSE IF scryfall["layout"] \notin DOMAIN layout_map
             THEN [begun EXCEPT !.lookups = looked,
                                !.prompt = "Layout is not supported",
                                !.exited = TRUE]
             ELSE LET built == LayoutObject(scryfall, card.name)
                      layout == IF TruthyStr(card.artist)
                                THEN Put(built, "artist", card.artist) ELSE built
                      card_count ==
                          IF Has(mtgset, "printed_size") THEN mtgset["printed_size"]
                          ELSE IF Has(mtgset, "card_count") THEN mtgset["card_count"]
                          ELSE "XXX"
                  IN  Select(Put(layout, "card_count", card_count),
                             Append(looked, [call |-> "set_info", name |-> <<>>,
                                             set |-> layout["set"],
                                             got |-> mtgset]),
                             TRUE)

(***************************************************************************)
(* CARD DATA UTILITIES: parse_card_info                                    *)
(***************************************************************************)

\* Path.stem: the name without its last suffix.
stem(path) ==
    LET dots == {i \in 2..Len(path) : path[i] = "."}
    IN  IF dots = {} THEN path ELSE SubSeq(path, 1, Max(dots) - 1)

\* Reg.PATH_SPLIT.split(s): the first and the last of the pieces of s
\* between the bracket openers.
PATH_SPLIT(s) ==
    LET at == {i \in 1..Len(s) : s[i] \in {"{", "[", "("}}
    IN  IF at = {} THEN [first |-> s, last |-> s]
        ELSE [first |-> SubSeq(s, 1, Min(at) - 1),
              last |-> SubSeq(s, Max(at) + 1, Len(s))]

\* Reg.PATH_ARTIST.search(s).group(1), None without a match.
PATH_ARTIST(s) == FirstTag(s, "(", ")")

\* The digits that end the text of the set tag.
TrailingDigits(t) ==
    Len(t) - Max({i \in 0..Len(t) : i = 0 \/ t[i] \notin {"1", "2", "3"}})

\* Reg.PATH_SET.search(s).group(1): the set tag without the collector number
\* that ends it; None without a match.
PATH_SET(s) ==
    LET t == FirstTag(s, "[", "]")
    IN  IF t = None THEN None ELSE SubSeq(t, 1, Len(t) - TrailingDigits(t))

\* Reg.PATH_NUM.search(s).group(1): the collector number that ends the set
\* tag; None without a match.
PATH_NUM(s) ==
    LET t == FirstTag(s, "[", "]")
    IN  IF t = None \/ TrailingDigits(t) = 0 THEN None
        ELSE SubSeq(t, Len(t) - TrailingDigits(t) + 1, Len(t))

\* parse_card_info(file_path)
parse_card_info(file_path) ==
    LET file_name == stem(file_path)
        name_split == PATH_SPLIT(file_name)
        artist == PATH_ARTIST(file_name)
        number == PATH_NUM(file_name)
        code == PATH_SET(file_name)
    IN  [filename |-> file_path,
         name |-> strip(name_split.first),
         set |-> IF code # None THEN code ELSE <<>>,
         artist |-> IF artist # None THEN artist ELSE <<>>,
         number |-> IF number # None /\ code # None THEN number ELSE <<>>,
         creator |-> IF Contains(file_name, "$") THEN name_split.last
                     ELSE <<>>]

(***************************************************************************)
(* SpecRender: one input file, parsed and rendered                         *)
(***************************************************************************)
InitRender ==
    /\ file \in Files
    /\ details = <<>>
    /\ rpc = "start"
    /\ job = NoJob
    /\ ReqIdle
    /\ ProcIdle
    /\ CardIdle
    /\ SetIdle
    /\ PageIdle

\* parse_card_info is applied to the file.
ParseCardInfo ==
    /\ details = <<>>
    /\ details' = parse_card_info(file.text)
    /\ UNCHANGED <<file, rpc, job>>
    /\ UNCHANGED <<reqVars, procVars, cardVars, setVars, pageVars>>

\* render(file, template) runs.
Render(template, scryfall, mtgset, main_json) ==
    /\ rpc = "start"
    /\ job' = render(file.text, template, scryfall, mtgset, main_json)
    /\ rpc' = "done"
    /\ UNCHANGED <<file, details>>
    /\ UNCHANGED <<reqVars, procVars, cardVars, setVars, pageVars>>

NextRender ==
    \/ ParseCardInfo
    \/ \E template \in {"Classic", "Normal"}, scryfall \in CardInfos,
          mtgset \in SetInfos, main_json \in MainJsons :
            Render(template, scryfall, mtgset, main_json)

SpecRender == InitRender /\ [][NextRender]_vars

(***************************************************************************)
(* Properties of the request client                                        *)
(***************************************************************************)

\* The value each decorated function is declared to fall back to.
Fallback(f) ==
    CASE f = "get_card_unique" -> "ScryfallError"
      [] f = "get_card_search" -> "ScryfallError"
      [] f = "get_cards_paged" -> "[]"
      [] f = "get_cards_oracle" -> "[]"
      [] f = "get_set_mtgjson" -> "{}"
      [] f = "get_set_scryfall" -> "{}"
      [] f = "card_scan" -> "None"

AllRaised(j) == \A i \in 1..Len(raised[j]) : raised[j][i] # "none"

\* C1: a call of a wrapped request function never delivers an exception to
\* its caller, and a call whose body raised on every attempt returns the
\* fallback value the function is decorated with.
C1_TerminalCatch ==
    \A j \in AllJobs :
        pc[j] = "done" =>
            /\ result[j].exc = "none"
            /\ AllRaised(j) => result[j].val = Fallback(fn[j])

\* A call of card_scan whose body raised a non-transport exception returned None.
C1_Witness ==
    \E j \in AllJobs :
        /\ pc[j] = "done"
        /\ fn[j] = "card_scan"
        /\ raised[j] = <<"Exception">>
        /\ result[j] = Returned("None")

\* C2: an attempt of the body that fails with a RequestException, with
\* attempts and time budget left, is followed by another attempt: the call is
\* still in progress after it.
C2_RetryOnTransient ==
    [][\A j \in AllJobs :
          ( /\ pc[j] = "body"
            /\ raised'[j] = Append(raised[j], "RequestException")
            /\ tries'[j] < max_tries
            /\ now - started[j] < max_time * TicksPerSecond )
          => pc'[j] = "body"]_vars

\* Number of wrapped bodies started within the last period.
RECURSIVE SumSeq(_)
SumSeq(q) == IF q = <<>> THEN 0 ELSE Head(q) + SumSeq(Tail(q))

\* C3 as stated: no sliding window of one period holds more than 20 call
\* starts.
C3_SlidingWindow == SumSeq(starts) <= calls

\* C3: between two resets of the limiter at most 20 calls start; a call over
\* the quota sleeps no longer than to the end of the limiter's window, and a
\* call that was delayed still runs its body and returns normally.
C3_FixedWindow ==
    /\ admitted <= calls
    /\ \A j \in AllJobs :
          /\ pc[j] = "sleep" => wake[j] <= last_reset + period * TicksPerSecond
          /\ pc[j] = "done" => tries[j] >= 1 /\ result[j].exc = "none"

\* A call that the limiter delayed has run, while another window is full.
C3_Witness ==
    /\ admitted = calls
    /\ \E j \in AllJobs : pc[j] = "done" /\ slept[j] /\ tries[j] = 1

(***************************************************************************)
(* Properties of get_card_data                                             *)
(***************************************************************************)

\* The card lookups among the requests made (the others fetch meld faces).
Lookups == SelectSeq(http, LAMBDA r : r.lang # "-")

\* Position of the English lookup among the lookups of one call.
EnglishIndex == IF cfg.lang = "en" THEN 1 ELSE 2

\* C4: get_card_data never raises: when it ends it has returned a value.
C4_NeverRaises == gpc = "done" => ret.exc = "none"

\* C5: with a language other than English configured the first lookup is the
\* localized one and every later one is English; an English lookup is made
\* only after the localized one returned no record; when the localized lookup
\* returns a record, get_card_data ends with the outcome of post-processing
\* that record and no other lookup is made. With English configured every
\* lookup is English.
C5_LanguageFallback ==
    /\ cfg.lang = "en" => \A i \in 1..Len(Lookups) : Lookups[i].lang = "en"
    /\ (cfg.lang # "en" /\ gpc \notin {"idle", "start"}) =>
         /\ Lookups # <<>>
         /\ Lookups[1].lang = cfg.lang
         /\ \A i \in 2..Len(Lookups) : Lookups[i].lang = "en"
         /\ Len(Lookups) >= 2 => ~IsDict(results[1])
         /\ IsDict(results[1]) =>
              /\ gpc = "done"
              /\ Len(Lookups) = 1
              /\ \E fetch \in [1..2 -> FetchKinds] :
                   ret = process_scryfall_data(
                             Put(results[1], "name_normalized",
                                 normalize_str(args.card_name)), fetch).out

\* The localized lookup found the card: it was returned after one request.
C5_Witness ==
    /\ cfg.lang = "ja"
    /\ gpc = "done"
    /\ results = <<Damnation>>
    /\ Len(http) = 1
    /\ http[1].lang = "ja"
    /\ ret = Done(Put(Damnation, "name_normalized", "damnation"))

\* C6 as stated: when the English lookup returned no record and extras are
\* not configured, exactly one further lookup is made, with include_extras on
\* where the endpoint has it, and a record it finds is returned; otherwise no
\* further lookup is made.
C6_ExtrasRetry ==
    (gpc = "done" /\ Len(results) >= EnglishIndex) =>
        IF ~IsDict(results[EnglishIndex]) /\ ~cfg.scry_extras
        THEN /\ Len(Lookups) = EnglishIndex + 1
             /\ Lookups[EnglishIndex + 1].lang = "en"
             /\ Lookups[EnglishIndex + 1].endpoint = "cards/search"
                  => Lookups[EnglishIndex + 1].include_extras = "true"
             /\ Len(results) = EnglishIndex + 1
             /\ IsDict(results[EnglishIndex + 1]) =>
                  \E fetch \in [1..2 -> FetchKinds] :
                     ret = process_scryfall_data(
                               Put(results[EnglishIndex + 1], "name_normalized",
                                   normalize_str(args.card_name)), fetch).out
        ELSE /\ Len(Lookups) = EnglishIndex
             /\ Len(results) = EnglishIndex

(***************************************************************************)
(* Properties of process_scryfall_data                                     *)
(***************************************************************************)

\* Number of occurrences of x in the list q.
RECURSIVE Count(_, _)
Count(q, x) ==
    IF q = <<>> THEN 0
    ELSE (IF Head(q) = x THEN 1 ELSE 0) + Count(Tail(q), x)

\* The raw record is a meld record with two meld parts and one meld result.
WellFormedMeld ==
    /\ raw["layout"] = "meld"
    /\ Len(MeldFront(raw)) = 2
    /\ Len(MeldBacks(raw)) = 1

\* C7: for a meld record with two meld parts and one meld result the only
\* fault of the meld block is a failed face request; when it completes, the
\* faces requested and stored are, in order, the front (the first part if the
\* queried name is that of the meld result or of the first part, else the
\* second part) and the meld result, both tagged card_face, and the layout is
\* transform when the two-face step starts.
C7_MeldFaces ==
    (passes = 1 /\ WellFormedMeld) =>
        LET front == MeldFront(raw)
            back == MeldBacks(raw)[1]
            chosen ==
                IF raw["name_normalized"] \in
                      {normalize_str(back["name"]), normalize_str(front[1]["name"])}
                THEN front[1] ELSE front[2]
        IN  /\ mid.exc \in {"none", "RequestException"}
            /\ mid.exc = "none" =>
                 LET faces == mid.val["card_faces"] IN
                 /\ Len(faces) = 2
                 /\ fetched = <<chosen["uri"], back["uri"]>>
                 /\ \A i \in 1..2 : faces[i]["object"] = "card_face"
                 /\ Has(faces[1], "name") => faces[1]["name"] = chosen["name"]
                 /\ Has(faces[2], "name") => faces[2]["name"] = back["name"]
                 /\ mid.val["layout"] = "transform"
                 /\ rec.val["card_faces"] = faces

\* Queried by the name of the second part, the record got the second part as
\* its front face and the meld result, a planeswalker, as its back.
C7_Witness ==
    /\ passes = 1
    /\ WellFormedMeld
    /\ raw["all_parts"] = <<PartA, PartB, PartC>>
    /\ raw["name_normalized"] = "the mightstone and weakstone"
    /\ rec.exc = "none"
    /\ Get(rec.val["card_faces"][1], "name", "") = "The Mightstone and Weakstone"
    /\ Get(rec.val["card_faces"][2], "name", "") = "Urza, Planeswalker"
    /\ rec.val["layout"] = "transform"

\* The meld block of the first pass completed on the raw meld record.
MeldProcessed ==
    /\ passes >= 1
    /\ raw["layout"] = "meld"
    /\ Has(rec.val, "card_faces")

C9_PlaneswalkerRelabel ==
    (passes >= 1 /\ rec.exc = "none" /\ Has(rec.val, "card_faces")) =>
        LET faces == mid.val["card_faces"]
            queried == mid.val["name_normalized"]
            face == IF normalize_str(faces[1]["name"]) = queried
                    THEN faces[1] ELSE faces[2]
            incoming == mid.val["layout"]
        IN  ( /\ normalize_str(face["name"]) = queried
              /\ Contains(face["type_line"], "Planeswalker") )
            => /\ incoming = "transform" => rec.val["layout"] = "planeswalker_tf"
               /\ incoming = "modal_dfc" => rec.val["layout"] = "planeswalker_mdfc"
               /\ incoming \notin {"transform", "modal_dfc"}
                    => rec.val["layout"] # "planeswalker_mdfc"

\* The record given to the last pass had one face: no card_faces, not meld.
SingleFace == ~Has(prev, "card_faces") /\ prev["layout"] # "meld"

\* C10: a pass that returns leaves a record with card_faces with a layout
\* other than mutate and planeswalker; it turns a single-face record with
\* keyword Mutate into mutate, another single-face record with a Planeswalker
\* type line into planeswalker, and leaves every other single-face record as
\* it was; a single-face record gains no card_faces.
C10_Cascade ==
    (passes >= 1 /\ rec.exc = "none") =>
        IF SingleFace
        THEN /\ ~Has(rec.val, "card_faces")
             /\ rec.val =
                  Put(prev, "layout",
                      IF Contains(Get(prev, "keywords", <<>>), "Mutate")
                      THEN "mutate"
                      ELSE IF Contains(Get(prev, "type_line", <<>>), "Planeswalker")
                      THEN "planeswalker"
                      ELSE prev["layout"])
        ELSE rec.val["layout"] \notin {"mutate", "planeswalker"}

\* A single-face planeswalker with keyword Mutate became mutate.
C10_Witness ==
    /\ passes = 1
    /\ SingleFace
    /\ raw["layout"] = "normal"
    /\ Contains(Get(raw, "keywords", <<>>), "Mutate")
    /\ Contains(Get(raw, "type_line", <<>>), "Planeswalker")
    /\ rec.val["layout"] = "mutate"

(***************************************************************************)
(* Properties of get_set_data                                              *)
(***************************************************************************)

\* The data file job j found is whole and has the key 'scryfall'.
FoundMarked(j) ==
    /\ spc[j] \notin {"idle", "read"}
    /\ seen[j].file.state = "file"
    /\ \E m \in seen[j].file.data : m[1] = "scryfall"

\* C11: a call of get_set_data that finds a data file for the uppercased set
\* code with the key 'scryfall' returns exactly the record in the file, makes
\* no request to either provider and leaves the file as it is, so every
\* further call in that state returns the same record.
C11_CacheHit ==
    \A j \in SetJobs :
        FoundMarked(j) =>
            /\ spc[j] = "done"
            /\ dump_data_file(set_ret[j]) = seen[j].file.data
            /\ net[j] = <<>>
            /\ wrote[j] = <<>>
            /\ cache[seen[j].path] = seen[j].file

\* The third call in a row for a lowercase code hits the data file.
C11_Witness ==
    /\ FoundMarked(1)
    /\ resolves[1] = 3
    /\ card_set[1] = "mh2"
    /\ Has(set_ret[1], "printed_size")

\* Job j has made both lookups of a call that did not use the data file.
Merged(j) == spc[j] \in {"save", "dump", "return", "done"} /\ Len(net[j]) = 2

\* C12: after a cache miss, every key that both the Scryfall record and the
\* stripped MTGJSON record have keeps the Scryfall value in the merged
\* record, and the keys only MTGJSON has are added.
C12_PrimaryWins ==
    \A j \in SetJobs :
        Merged(j) =>
            LET primary == net[j][1].got
                secondary == net[j][2].got
            IN  /\ \A k \in DOMAIN primary \cap DOMAIN secondary :
                      Value(j)[k] = primary[k]
                /\ \A k \in DOMAIN secondary \ DOMAIN primary :
                      Has(Value(j), k) /\ Value(j)[k] = secondary[k]

\* C13: a record is dumped only if both lookups returned non-empty data or
\* the merged record has 'printed_size'; nothing is dumped when the Scryfall
\* lookup returned empty data and the merged record has no 'printed_size'.
C13_SaveGuard ==
    \A j \in SetJobs :
        wrote[j] # <<>> =>
            \/ Truthy(net[j][1].got) /\ Truthy(net[j][2].got)
            \/ Has(wrote[j][1], "printed_size")

\* C14: every record get_set_data dumps, and every record a data file
\* holds, has a non-empty 'name', whatever the two providers answered.
C14_NamedRecords ==
    /\ \A j \in SetJobs : \A i \in 1..Len(wrote[j]) :
          Get(wrote[j][i], "name", "") # ""
    /\ \A p \in Paths :
          cache[p].state = "file" =>
              \E m \in cache[p].data : m[1] = "name" /\ m[2] # ""

\* A record was dumped after the Scryfall lookup failed, and one after it
\* answered with a set that MTGJSON has no valid data for.
C14_Witness ==
    /\ spc[1] = "done"
    /\ wrote[1] # <<>>
    /\ cache[seen[1].path].state = "file"
    /\ cache[seen[1].path].data = dump_data_file(wrote[1][1])
    /\ \/ ~Truthy(net[1][1].got) /\ net[1][2].got = MtgStripped
       \/ Has(net[1][1].got, "printed_size") /\ ~Truthy(net[1][2].got)

\* C19: when concurrent jobs resolve the same set from no data file and the
\* providers answer them alike, then under every interleaving of their
\* reads, lookups and dumps all jobs return the record a resolve run by
\* itself returns, and the data file ends as that resolve leaves it.
C19_LastWriteWins ==
    (\A j \in SetJobs : spc[j] = "done") =>
        LET alone == Resolve(base, remote.scry, remote.mtg) IN
            /\ \A j \in SetJobs : set_ret[j] = alone.ret
            /\ cache[SetPath(remote.code)] = alone.file

\* Two jobs are done: one found the file while the other was writing it and
\* dumped its own record over it, and another found the finished file.
C19_Witness ==
    /\ \A j \in SetJobs : spc[j] = "done"
    /\ \E j \in SetJobs : seen[j].file.state = "writing" /\ wrote[j] # <<>>
    /\ \E j \in SetJobs : seen[j].file.state = "absent" /\ wrote[j] # <<>>
    /\ cache[SetPath(remote.code)].state = "file"

(***************************************************************************)
(* Properties of get_cards_paged                                           *)
(***************************************************************************)

\* The cards of page i and of every page after it, in page order.
RECURSIVE PagesFrom(_)
PagesFrom(i) == IF i > Len(pages) THEN <<>> ELSE pages[i] \o PagesFrom(i + 1)

\* C20: a paged call whose first request is answered returns, with
\* all_pages, the cards of the first page followed by those of every further
\* page in page order, and without all_pages the cards of the first page;
\* the cards of the first page are never lost because a further page exists.
C20_AllPages ==
    (ppc.at = "done" /\ page_http[1].kind = "json") =>
        /\ paged.exc = "none"
        /\ paged.val = IF ppc.all_pages THEN PagesFrom(1) ELSE pages[1]

(***************************************************************************)
(* Properties of the requests made for a card                              *)
(***************************************************************************)

\* The endpoints that get_card_unique and get_card_search request, inside
\* handle_request_failure.
DecoratedEndpoints == {"cards/collector", "cards/search"}

\* C18: every HTTP request made while get_card_data resolves a card, the
\* two face requests of a meld card included, is made inside a function
\* decorated with handle_request_failure, so that it counts against the
\* limiter and its failure never reaches the caller.
C18_AllRequestsGuarded ==
    /\ \A i \in 1..Len(http) : http[i].endpoint \in DecoratedEndpoints
    /\ ret.exc # "RequestException"

(***************************************************************************)
(* Properties of the filename parsers and of render                        *)
(***************************************************************************)

\* The file has the three tags, in some order, and a set tag that ends with
\* a collector number.
FullForm == Len(file.tags) = 3 /\ file.set = <<"S", "E", "T", "1", "2", "3">>

\* C15: for a file 'Name {Creator} (Artist) [SET123].ext', the three tags
\* in any order, the parser returns the name, the creator, the artist, the
\* set code 'SET' and the collector number '123' split off the set tag.
C15_ParserRecovers ==
    FullForm =>
        /\ details # <<>> =>
              /\ details["name"] = file.name
              /\ details["creator"] = <<"M", "e">>
              /\ details["artist"] = <<"J", "o">>
              /\ details["set"] = <<"S", "E", "T">>
              /\ details["number"] = <<"1", "2", "3">>
        /\ rpc = "done" =>
              /\ job.card["name"] = file.name
              /\ job.card["creator"] = <<"M", "e">>
              /\ job.card["artist"] = <<"J", "o">>
              /\ job.card["set"] = <<"S", "E", "T">>
              /\ Get(job.card, "number", <<>>) = <<"1", "2", "3">>

\* C16: a job whose parsed name is a basic land name, whatever tags the file
\* has, builds the basic land layout from the name, the artist and the
\* uppercased set, looks up neither card nor set, selects a template and
\* executes the one it finds.
C16_BasicLandShortCircuit ==
    (rpc = "done" /\ job.card["name"] \in basic_land_names) =>
        /\ job.exc = "none"
        /\ job.lookups = <<>>
        /\ Get(job.layout, "card_class", "") = "basic"
        /\ Get(job.layout, "name", None) = job.card["name"]
        /\ Get(job.layout, "artist", <<>>) = job.card["artist"]
        /\ job.card["set"] # None
              => Get(job.layout, "set", None) = str_upper(job.card["set"])
        /\ job.template # "-"
        /\ job.template # "None" => job.executed

\* card_info returned the typed error value, or a record whose layout has
\* no constructor in layout_map.
Unresolved ==
    /\ rpc = "done"
    /\ job.lookups # <<>>
    /\ \/ ~IsDict(job.lookups[1].got)
       \/ Get(job.lookups[1].got, "layout", "") \notin DOMAIN layout_map

\* C17: a job whose card lookup yields the typed error value or a record
\* of an unsupported layout shows the prompt 'layout not supported' and
\* exits; it looks up no set, selects no template and executes none.
C17_UnsupportedAborts ==
    Unresolved =>
        /\ job.prompt = "Layout is not supported"
        /\ job.exited
        /\ job.exc = "none"
        /\ Len(job.lookups) = 1
        /\ job.template = "-"
        /\ ~job.executed

\* The job's call follows a call that dumped a record to the same data file,
\* and found that file whole, holding what was dumped.
FoundOwnDump(j) ==
    /\ spc[j] \notin {"idle", "read"}
    /\ prior[j].dumped
    /\ prior[j].path = seen[j].path
    /\ seen[j].file = [state |-> "file", data |-> dump_data_file(prior[j].data)]

\* C21: when a call of get_set_data that missed the cache has dumped a
\* record, the next call for the same set code, finding the data file as it
\* was left, is a cache hit: it sends no request and returns the record that
\* was dumped, whatever the Scryfall lookup of the first call had returned.
C21_WrittenThenHit ==
    FoundOwnDump(1) =>
        /\ spc[1] = "done"
        /\ net[1] = <<>>
        /\ set_ret[1] = prior[1].data

\* Records a and b agree on key k: both lack it, or both hold the same value.
SameAt(a, b, k) ==
    /\ Has(a, k) <=> Has(b, k)
    /\ Has(a, k) => a[k] = b[k]

\* C22: process_scryfall_data applied to its own output gives the layout,
\* the card_faces and the frame_effects that the first application gave,
\* for every record.
C22_LayoutIdempotent ==
    (passes = 2 /\ rec.exc = "none") =>
        \A k \in {"layout", "card_faces", "frame_effects"} :
            SameAt(rec.val, prev, k)

====
